---- MODULE Spec2Model ----
(***************************************************************************)
(* Model of backend/python/twikit_bridge.py: the line-delimited JSON-RPC   *)
(* loop (main), the dispatcher (handle_request) and the three handlers of  *)
(* TwikitBridge (initialize, search_tweets, get_trending).                 *)
(*                                                                         *)
(* The twikit Client is the external capability.  A call to it is a        *)
(* suspension point of the coroutine: the model stops at pc = "await" and  *)
(* the capability's outcome (normal return, TwikitException, any other     *)
(* Exception) is chosen by the environment when the call returns.  Values  *)
(* the capability hands back are taken to be JSON-serialisable.            *)
(*                                                                         *)
(* Spec starts where main starts.  ProcessSpec starts one step earlier, at *)
(* the import guard of the module, which either lets main start or prints  *)
(* its own error envelope and exits with status 1.                         *)
(***************************************************************************)
EXTENDS Integers, Sequences, FiniteSets, TLC

\* ------------------------------------------------------------------------
\* Bounds
\* ------------------------------------------------------------------------
\* number of input lines the host writes before closing the stream
MaxLines == 3
\* longest list the capability returns from search_tweet / get_trends
MaxItems == 2

\* ------------------------------------------------------------------------
\* Values
\* ------------------------------------------------------------------------
\* Python None, which json.dumps writes as null and json.loads reads from null
None == "None"
\* a key that is missing from a JSON object
Absent == "ABSENT"

\* dict.get(key, default): the default only replaces a missing key, a key
\* that is present with the value null yields None
dict_get(v, default) == IF v = Absent THEN default ELSE v

\* count values a request may carry: missing, null, or an integer
AbsentCount == [t |-> "absent", v |-> 0]
NullCount == [t |-> "null", v |-> 0]
IntCount(n) == [t |-> "int", v |-> n]
DefaultCount == 20
CountVals == {AbsentCount, NullCount} \cup {IntCount(n) : n \in {-1, 0, 1}}
count_get(c) == IF c.t = "absent" THEN IntCount(DefaultCount) ELSE c

Usernames == {"u1", "u2"}
Queries == {"cats"}
Ids == {Absent, None, "7"}
Methods == {"initialize", "search", "trending", "delete", Absent}

\* the value under "params": missing, null, a JSON array, or an object
EmptyMap ==
    [type |-> "map", username |-> Absent, email |-> Absent, password |-> Absent,
     query |-> Absent, count |-> AbsentCount]
AbsentParams == [EmptyMap EXCEPT !.type = "absent"]
NullParams == [EmptyMap EXCEPT !.type = "null"]
ListParams == [EmptyMap EXCEPT !.type = "list"]
\* the credentials of a user: e(u) and p(u) stand for u's email and password
InitMaps ==
    {[EmptyMap EXCEPT !.username = u, !.email = "e(" \o u \o ")",
                      !.password = "p(" \o u \o ")"] : u \in Usernames}
QueryMaps ==
    {[EmptyMap EXCEPT !.query = q, !.count = c] :
        q \in Queries \cup {Absent}, c \in CountVals}
ParamsVals == {AbsentParams, NullParams, ListParams} \cup InitMaps \cup QueryMaps

Requests == [method : Methods, params : ParamsVals, id : Ids]
NoRequest == [method |-> Absent, params |-> AbsentParams, id |-> Absent]

\* request.get('params', {})
params_get(p) == IF p.type = "absent" THEN EmptyMap ELSE p
\* params.get(...) raises AttributeError unless params is a dict
IsMapping(p) == p.type = "map"

\* ------------------------------------------------------------------------
\* Input lines, by what sys.stdin.readline / str.strip / json.loads make of
\* them
\* ------------------------------------------------------------------------
\*   eof        readline returns ''
\*   blank      only whitespace before the newline
\*   malformed  json.loads raises JSONDecodeError
\*   overdeep   json.loads raises another exception (RecursionError on
\*              nesting beyond the recursion limit, ValueError on an integer
\*              literal beyond the digit limit)
\*   value      decodes to a JSON value that is not an object
\*   object     decodes to a JSON object
LineKinds == {"eof", "blank", "malformed", "overdeep", "value", "object"}
Line(k, r) == [kind |-> k, request |-> r]
NoLine == Line("none", NoRequest)

\* json.loads(line): the exception it raises, or "none"
json_loads(l) ==
    CASE l.kind = "malformed" -> "JSONDecodeError"
      [] l.kind = "overdeep" -> "RecursionError"
      [] OTHER -> "none"

\* ------------------------------------------------------------------------
\* Result payloads and response envelopes
\* ------------------------------------------------------------------------
EmptyPayload ==
    [keys |-> {}, success |-> FALSE, type |-> "", username |-> None,
     items |-> <<>>, count |-> 0, query |-> None]

Failure(t) ==
    [EmptyPayload EXCEPT
        !.keys = IF t = "UNKNOWN_ERROR"
                 THEN {"success", "error", "type", "traceback"}
                 ELSE {"success", "error", "type"},
        !.type = t]

\* the code of the envelope printed when twikit cannot be imported
ImportErrorCode == -32001
ParseErrorCode == -32700
MethodNotFoundCode == -32601
InternalErrorCode == -32603

ResultEnvelope(result, id) ==
    [keys |-> {"jsonrpc", "result", "id"}, result |-> result, code |-> 0,
     message |-> "", id |-> id]
\* ErrorEnvelope, had it carried a result field next to the error
ErrorEnvelope_with_result(code, message, id) ==
    [keys |-> {"jsonrpc", "error", "result", "id"},
     result |-> EmptyPayload, code |-> code, message |-> message, id |-> id]

ErrorEnvelope(code, message, id) ==
    [keys |-> IF code = InternalErrorCode
              THEN {"jsonrpc", "error", "id", "data"}
              ELSE {"jsonrpc", "error", "id"},
     result |-> EmptyPayload, code |-> code, message |-> message, id |-> id]
ReadyMessage ==
    [keys |-> {"status", "version"}, result |-> EmptyPayload, code |-> 0,
     message |-> "ready", id |-> Absent]
NoResponse ==
    [keys |-> {}, result |-> EmptyPayload, code |-> 0, message |-> "",
     id |-> Absent]

\* ------------------------------------------------------------------------
\* The capability (twikit Client)
\* ------------------------------------------------------------------------
\* how an awaited call on the Client ends
Outcomes == {"ok", "TwikitException", "Exception"}
\* a list returned by search_tweet / get_trends: element i is TRUE when raw
\* item i can be mapped and FALSE when reading its attributes raises
RawLists == UNION {[1..n -> BOOLEAN] : n \in 0..MaxItems}

\* the Client object held by the bridge: None, a Client that has not logged
\* in, or a Client whose login has succeeded
ClientStates == {None, "fresh", "logged"}

NoCall == [op |-> "none", client |-> None]
Call(op, client) == [op |-> op, client |-> client]

\* ------------------------------------------------------------------------
\* TwikitBridge
\* ------------------------------------------------------------------------
\* TwikitBridge.__init__
TwikitBridge ==
    [client |-> None, initialized |-> FALSE, username |-> None,
     email |-> None, password |-> None]

\* initialize, up to the await of client.login: the credentials are stored
\* and a new Client replaces the old one before the login is attempted
initialize_begin(b, username, email, password) ==
    [b EXCEPT !.username = username, !.email = email, !.password = password,
              !.client = "fresh"]

\* initialize_bridge, had a login on an already initialized bridge flipped
\* the flag instead of setting it
initialize_bridge_toggle(b, outcome) ==
    IF outcome = "ok"
    THEN [b EXCEPT !.initialized = ~b.initialized, !.client = "logged"]
    ELSE b

\* initialize_bridge, had the exception handlers cleared the flag
initialize_bridge_reset_on_failure(b, outcome) ==
    IF outcome = "ok"
    THEN [b EXCEPT !.initialized = TRUE, !.client = "logged"]
    ELSE [b EXCEPT !.initialized = FALSE]

\* initialize, from the return of client.login: the bridge afterwards
initialize_bridge(b, outcome) ==
    IF outcome = "ok"
    THEN [b EXCEPT !.initialized = TRUE, !.client = "logged"]
    ELSE b

\* initialize_result, had the TwikitException handler been missing: the
\* rejection is reported by the handler of Exception
initialize_result_auth_as_unknown(outcome, username) ==
    IF outcome = "ok"
    THEN [EmptyPayload EXCEPT !.keys = {"success", "message", "username"},
                              !.success = TRUE, !.username = username]
    ELSE Failure("UNKNOWN_ERROR")

\* initialize, from the return of client.login: the payload returned
initialize_result(outcome, username) ==
    CASE outcome = "ok" ->
            [EmptyPayload EXCEPT !.keys = {"success", "message", "username"},
                                 !.success = TRUE, !.username = username]
      [] outcome = "TwikitException" -> Failure("AUTH_ERROR")
      [] OTHER -> Failure("UNKNOWN_ERROR")

\* not_initialized, had the guard only looked for a Client object
not_initialized_client_only(b) == b.client = None

\* the guard of search_tweets and get_trending
not_initialized(b) == ~b.initialized \/ b.client = None

\* the per-item loop of search_tweets / get_trending: items whose mapping
\* raises are skipped, the others are appended in order; a mapped item is
\* identified by the position of its raw item
\* map_items, had a failing item ended the loop (break for continue)
RECURSIVE map_items_break(_, _)
map_items_break(raw, i) ==
    IF i > Len(raw) \/ ~raw[i] THEN <<>>
    ELSE <<i>> \o map_items_break(raw, i + 1)

RECURSIVE map_items(_, _)
map_items(raw, i) ==
    IF i > Len(raw) THEN <<>>
    ELSE (IF raw[i] THEN <<i>> ELSE <<>>) \o map_items(raw, i + 1)

Min(a, b) == IF a < b THEN a ELSE b
Max(a, b) == IF a > b THEN a ELSE b

\* Python's seq[:m]
slice_to(seq, m) ==
    IF m >= 0 THEN SubSeq(seq, 1, Min(m, Len(seq)))
    ELSE SubSeq(seq, 1, Max(Len(seq) + m, 0))

\* search_tweets, from the return of client.search_tweet
search_tweets_result(outcome, raw, query) ==
    CASE outcome = "ok" ->
            [EmptyPayload EXCEPT
                !.keys = {"success", "tweets", "count", "query"},
                !.success = TRUE,
                !.items = map_items(raw, 1),
                !.count = Len(map_items(raw, 1)),
                !.query = query]
      [] outcome = "TwikitException" -> Failure("API_ERROR")
      [] OTHER -> Failure("UNKNOWN_ERROR")

\* get_trending, from the return of client.get_trends; min(count, len(trends))
\* raises TypeError when count is None
get_trending_result(outcome, raw, count) ==
    CASE outcome = "ok" /\ count.t = "int" ->
            [EmptyPayload EXCEPT
                !.keys = {"success", "trends", "count"},
                !.success = TRUE,
                !.items = map_items(slice_to(raw, Min(count.v, Len(raw))), 1),
                !.count = Len(map_items(slice_to(raw, Min(count.v, Len(raw))), 1))]
      [] outcome = "TwikitException" -> Failure("API_ERROR")
      [] OTHER -> Failure("UNKNOWN_ERROR")

\* ------------------------------------------------------------------------
\* handle_request
\* ------------------------------------------------------------------------
KnownMethods == {"initialize", "search", "trending"}

\* request_id, had it dropped the correlation token
request_id_dropped(request) == None

\* request.get('method'), request.get('id')
request_method(request) == dict_get(request.method, None)
request_id(request) == dict_get(request.id, None)

\* method_not_found, had the unknown method been reported as an internal error
method_not_found_as_internal(request) ==
    ErrorEnvelope(InternalErrorCode, "Method not found", request_id(request))

method_not_found(request) ==
    ErrorEnvelope(MethodNotFoundCode, "Method not found", request_id(request))
internal_error(request) ==
    ErrorEnvelope(InternalErrorCode, "Internal error", request_id(request))

Returned(b, response) == [done |-> TRUE, bridge |-> b, response |-> response, call |-> NoCall]
Suspended(b, call) == [done |-> FALSE, bridge |-> b, response |-> NoResponse, call |-> call]

\* handle_request from its entry to its first await or, when it makes no
\* capability call, to its return
handle_request_begin(b, request) ==
    LET method == request_method(request)
        params == params_get(request.params)
    IN  CASE method \notin KnownMethods ->
                Returned(b, method_not_found(request))
          [] method \in KnownMethods /\ ~IsMapping(params) ->
                Returned(b, internal_error(request))
          [] method = "initialize" /\ IsMapping(params) ->
                Suspended(initialize_begin(b, dict_get(params.username, None),
                                           dict_get(params.email, None),
                                           dict_get(params.password, None)),
                          Call("login", "fresh"))
          [] method = "search" /\ IsMapping(params) ->
                IF not_initialized(b)
                THEN Returned(b, ResultEnvelope(Failure("NOT_INITIALIZED"),
                                                request_id(request)))
                ELSE Suspended(b, Call("search_tweet", b.client))
          [] method = "trending" /\ IsMapping(params) ->
                IF not_initialized(b)
                THEN Returned(b, ResultEnvelope(Failure("NOT_INITIALIZED"),
                                                request_id(request)))
                ELSE Suspended(b, Call("get_trends", b.client))

\* handle_request from the return of the awaited capability call to its own
\* return
handle_request_end(b, request, outcome, raw) ==
    LET method == request_method(request)
        params == params_get(request.params)
    IN  CASE method = "initialize" ->
                Returned(initialize_bridge(b, outcome),
                         ResultEnvelope(
                            initialize_result(outcome, dict_get(params.username, None)),
                            request_id(request)))
          [] method = "search" ->
                Returned(b, ResultEnvelope(
                            search_tweets_result(outcome, raw,
                                                 dict_get(params.query, None)),
                            request_id(request)))
          [] OTHER ->
                Returned(b, ResultEnvelope(
                            get_trending_result(outcome, raw, count_get(params.count)),
                            request_id(request)))

\* ------------------------------------------------------------------------
\* main
\* ------------------------------------------------------------------------
\* the envelope of the import guard at the top of the module
import_error ==
    ErrorEnvelope(ImportErrorCode, "twikit not installed or import error", None)
parse_error == ErrorEnvelope(ParseErrorCode, "Parse error", None)
server_error == ErrorEnvelope(InternalErrorCode, "Server error", None)

\* what the loop prints for a line json.loads rejects: the JSONDecodeError
\* handler, or the handler of the loop body for any other exception
decode_failure(l) ==
    IF json_loads(l) = "JSONDecodeError" THEN parse_error ELSE server_error

\* what the capability call awaited for the current line came back with
NoReturn == [op |-> "none", outcome |-> "none", raw |-> <<>>]
Return(op, outcome, raw) == [op |-> op, outcome |-> outcome, raw |-> raw]

VARIABLES
    pc,        \* where the process is: "import" (the import guard, before
               \* main), "failed" (the import failed), and in main "start",
               \* "read", "await", "done" (the loop is left), "exited"
    bridge,    \* the TwikitBridge instance
    nread,     \* number of lines read from stdin so far
    line,      \* the line read last
    call,      \* the capability call being awaited
    out,       \* stdout: for each line written, the number of the input
               \* line it answers (0 for a line that answers none)
    response,  \* the line written last
    prev,      \* history: the bridge as it was when the last line was read
    returned,  \* history: the outcome of the capability call made for the
               \* last line
    everInit,  \* history: some initialize has returned success: true
    nonblank,  \* history: number of lines read that were not blank
    exit_code  \* the status the process has exited with, None while it runs

vars ==
    <<pc, bridge, nread, line, call, out, response, prev, returned, everInit,
      nonblank, exit_code>>

Init ==
    /\ pc = "start"
    /\ bridge = TwikitBridge
    /\ nread = 0
    /\ line = NoLine
    /\ call = NoCall
    /\ out = <<>>
    /\ response = NoResponse
    /\ prev = TwikitBridge
    /\ returned = NoReturn
    /\ everInit = FALSE
    /\ nonblank = 0
    /\ exit_code = None

\* print(json.dumps(...), flush=True) of the answer to input line n
Emit(n, r) ==
    /\ out' = Append(out, n)
    /\ response' = r

\* AtRead, had the next readline been started without awaiting the handler
AtRead_not_awaiting_handler == pc \in {"read", "await"}

\* the loop is at sys.stdin.readline: the response to the line before has
\* been printed, nothing is awaited
AtRead == pc = "read"

\* readline returns the next line of the stream
Read(l) ==
    /\ AtRead
    /\ nread < MaxLines
    /\ nread' = nread + 1
    /\ line' = l
    /\ prev' = bridge
    /\ returned' = NoReturn
    /\ nonblank' = (IF l.kind = "blank" THEN nonblank ELSE nonblank + 1)
    /\ UNCHANGED exit_code

\* Start, had the loop been entered without the readiness message
Start_without_ready ==
    /\ pc = "start"
    /\ pc' = "read"
    /\ UNCHANGED <<bridge, nread, line, call, out, response, prev, returned,
                    everInit, nonblank, exit_code>>

\* the readiness message
Start ==
    /\ pc = "start"
    /\ Emit(0, ReadyMessage)
    /\ pc' = "read"
    /\ UNCHANGED <<bridge, nread, line, call, prev, returned, everInit,
                    nonblank, exit_code>>

\* ReadEOF, had end-of-input not left the loop (continue for break)
ReadEOF_continue ==
    /\ AtRead
    /\ line' = Line("eof", NoRequest)
    /\ UNCHANGED <<pc, bridge, nread, call, out, response, prev, returned,
                    everInit, nonblank, exit_code>>

\* readline returns '': break
ReadEOF ==
    /\ AtRead
    /\ pc' = "done"
    /\ line' = Line("eof", NoRequest)
    /\ UNCHANGED <<bridge, nread, call, out, response, prev, returned, everInit,
                    nonblank, exit_code>>

\* ReadBlank, had the stripped line not been tested: json.loads('') raises
\* JSONDecodeError and the line is answered
ReadBlank_parsed ==
    /\ Read(Line("blank", NoRequest))
    /\ Emit(nread', parse_error)
    /\ UNCHANGED <<pc, bridge, call, everInit>>

\* a line that is empty after strip(): continue
ReadBlank ==
    /\ Read(Line("blank", NoRequest))
    /\ UNCHANGED <<pc, bridge, call, out, response, everInit>>

\* a line json.loads rejects
ReadUndecodable(k) ==
    /\ Read(Line(k, NoRequest))
    /\ Emit(nread', decode_failure(line'))
    /\ UNCHANGED <<pc, bridge, call, everInit>>

\* ReadNonObject, had the loop body no handler for the exception: main ends
ReadNonObject_uncaught ==
    /\ Read(Line("value", NoRequest))
    /\ pc' = "done"
    /\ UNCHANGED <<bridge, call, out, response, everInit>>

\* ReadNonObject, had the loop body's handler swallowed the exception
ReadNonObject_silent ==
    /\ Read(Line("value", NoRequest))
    /\ UNCHANGED <<pc, bridge, call, out, response, everInit>>

\* a JSON value that is not an object: request.get raises AttributeError
\* before the try of handle_request, the loop body's handler answers
ReadNonObject ==
    /\ Read(Line("value", NoRequest))
    /\ Emit(nread', server_error)
    /\ UNCHANGED <<pc, bridge, call, everInit>>

\* a JSON object: handle_request runs to its return or to its first await
ReadRequest(request) ==
    /\ Read(Line("object", request))
    /\ LET h == handle_request_begin(bridge, request)
       IN  /\ bridge' = h.bridge
           /\ call' = h.call
           /\ IF h.done
              THEN Emit(nread', h.response) /\ pc' = "read"
              ELSE UNCHANGED <<out, response>> /\ pc' = "await"
    /\ UNCHANGED everInit

\* CapabilityReturn, had the await been bounded by a timeout: the request is
\* answered although the call has not come back
CapabilityReturn_timeout(outcome, raw) ==
    /\ pc = "await"
    /\ Emit(nread, internal_error(line.request))
    /\ call' = NoCall
    /\ pc' = "read"
    /\ UNCHANGED <<bridge, nread, line, prev, returned, everInit, nonblank,
                    exit_code>>

\* the awaited capability call returns or raises; handle_request returns and
\* the response is printed
CapabilityReturn(outcome, raw) ==
    /\ pc = "await"
    /\ LET h == handle_request_end(bridge, line.request, outcome, raw)
       IN  /\ bridge' = h.bridge
           /\ Emit(nread, h.response)
           /\ everInit' = (everInit \/ (call.op = "login" /\ h.response.result.success))
    /\ returned' = Return(call.op, outcome, raw)
    /\ call' = NoCall
    /\ pc' = "read"
    /\ UNCHANGED <<nread, line, prev, nonblank, exit_code>>

\* main has returned: asyncio.run returns and the interpreter exits with
\* status 0
Exit ==
    /\ pc = "done"
    /\ pc' = "exited"
    /\ exit_code' = "0"
    /\ UNCHANGED <<bridge, nread, line, call, out, response, prev, returned,
                    everInit, nonblank>>

Next ==
    \/ Start
    \/ ReadEOF
    \/ ReadBlank
    \/ \E k \in {"malformed", "overdeep"} : ReadUndecodable(k)
    \/ ReadNonObject
    \/ \E request \in Requests : ReadRequest(request)
    \/ \E outcome \in Outcomes, raw \in RawLists :
          /\ (call.op = "login" \/ outcome # "ok") => raw = <<>>
          /\ CapabilityReturn(outcome, raw)
    \/ Exit

\* the steps of main at readline when the host sends requests of R, and the
\* return of the awaited call
ReadStep(R) ==
    \/ ReadEOF
    \/ ReadBlank
    \/ \E k \in {"malformed", "overdeep"} : ReadUndecodable(k)
    \/ ReadNonObject
    \/ \E request \in R : ReadRequest(request)
ReturnStep ==
    \E outcome \in Outcomes, raw \in RawLists :
        /\ (call.op = "login" \/ outcome # "ok") => raw = <<>>
        /\ CapabilityReturn(outcome, raw)

Spec == Init /\ [][Next]_vars

\* The whole process, from the import guard that precedes main.
ProcessInit ==
    /\ pc = "import"
    /\ bridge = TwikitBridge
    /\ nread = 0
    /\ line = NoLine
    /\ call = NoCall
    /\ out = <<>>
    /\ response = NoResponse
    /\ prev = TwikitBridge
    /\ returned = NoReturn
    /\ everInit = FALSE
    /\ nonblank = 0
    /\ exit_code = None

\* from twikit import Client succeeds: the module is loaded and main starts
ImportOk ==
    /\ pc = "import"
    /\ pc' = "start"
    /\ UNCHANGED <<bridge, nread, line, call, out, response, prev, returned,
                    everInit, nonblank, exit_code>>

\* the import raises ImportError: the guard prints its error envelope and
\* calls sys.exit(1); main is never entered
ImportFail ==
    /\ pc = "import"
    /\ Emit(0, import_error)
    /\ pc' = "failed"
    /\ exit_code' = "1"
    /\ UNCHANGED <<bridge, nread, line, call, prev, returned, everInit, nonblank>>

ProcessNext ==
    \/ ImportOk
    \/ ImportFail
    \/ Next

ProcessSpec == ProcessInit /\ [][ProcessNext]_vars

\* the requests of the liveness specification: every method with every kind
\* of params, one mapping of each handler's parameters, one id
LiveRequests ==
    {r \in Requests :
        /\ r.id = "7"
        /\ r.params \in {AbsentParams, NullParams,
                         [EmptyMap EXCEPT !.username = "u1", !.email = "e(u1)",
                                          !.password = "p(u1)"],
                         [EmptyMap EXCEPT !.query = "cats", !.count = IntCount(1)]}}

LiveNext ==
    \/ Start
    \/ ReadStep(LiveRequests)
    \/ ReturnStep
    \/ Exit

\* the behaviours in which the input stream is finite (every readline
\* returns, with a line or with end-of-input) and every capability call
\* returns
LiveSpec ==
    /\ Init /\ [][LiveNext]_vars
    /\ WF_vars(Start)
    /\ WF_vars(ReadStep(LiveRequests))
    /\ WF_vars(ReturnStep)
    /\ WF_vars(Exit)

TypeOK ==
    /\ pc \in {"import", "failed", "start", "read", "await", "done", "exited"}
    /\ nread \in 0..MaxLines
    /\ nonblank \in 0..nread
    /\ exit_code \in {None, "0", "1"}
    /\ bridge.client \in ClientStates

\* ------------------------------------------------------------------------
\* Properties
\* ------------------------------------------------------------------------
\* the id a response to the request must carry: the request's own, null when
\* the request has none
EchoedId(request) == IF request.id = Absent THEN None ELSE request.id
\* the value a handler receives for a parameter: null when it is missing
Given(v) == IF v = Absent THEN None ELSE v

\* the number of output lines that answer input line n
Answers(n) == Cardinality({i \in 1..Len(out) : out[i] = n})

\* the last line read is a JSON object and main is back at readline (or is
\* still awaiting the capability)
ObjectLine == nread >= 1 /\ line.kind = "object"
MappingParams(request) == request.params.type \in {"map", "absent"}

\* C1: a line that decodes to a JSON object gets exactly one response line
\* before the next line is read, and the response carries the request's id
\* (null when the request has none); while its capability call is awaited
\* nothing has been written for it.
C1_OneResponseEchoingId ==
    ObjectLine =>
        /\ pc = "await" => Answers(nread) = 0
        /\ pc = "read" =>
              /\ Answers(nread) = 1
              /\ out[Len(out)] = nread
              /\ "id" \in response.keys
              /\ response.id = EchoedId(line.request)

C1_Witness ==
    /\ ObjectLine /\ pc = "read" /\ nread = 2
    /\ line.request.id = "7" /\ response.id = "7"
    /\ line.request.method = "search"
    /\ returned.outcome = "ok"
    /\ out = <<0, 1, 2>>

\* C2 (as claimed): every non-blank line json.loads rejects is answered with
\* one error -32700 whose id is null, the bridge is left as it was, no
\* capability call is made and the loop is back at readline.
C2_UndecodableIsParseError ==
    [][(nread' = nread + 1 /\ line'.kind \in {"malformed", "overdeep"}) =>
          /\ out' = Append(out, nread')
          /\ response'.code = -32700
          /\ response'.id = None
          /\ bridge' = bridge
          /\ call' = NoCall
          /\ pc' = "read"]_vars

\* C3: as long as no initialize has succeeded (failed attempts included), a
\* search or trending request whose params is a mapping is answered with a
\* result payload success: false, type: NOT_INITIALIZED, and neither
\* search_tweet nor get_trends is invoked.
C3_NotInitializedGate ==
    ~everInit =>
        /\ call.op \notin {"search_tweet", "get_trends"}
        /\ returned.op \notin {"search_tweet", "get_trends"}
        /\ (ObjectLine /\ line.request.method \in {"search", "trending"}
               /\ MappingParams(line.request)) =>
              /\ pc = "read"
              /\ out[Len(out)] = nread
              /\ "result" \in response.keys
              /\ "error" \notin response.keys
              /\ response.result.success = FALSE
              /\ response.result.type = "NOT_INITIALIZED"

C3_Witness ==
    /\ ~everInit /\ pc = "read" /\ nread = 2
    /\ bridge.username = "u1" /\ bridge.client = "fresh"
    /\ ObjectLine /\ line.request.method = "search"
    /\ line.request.params.query = "cats"
    /\ response.result.type = "NOT_INITIALIZED"

\* C4: a request whose method is none of initialize, search, trending (a
\* missing method included) is answered with error -32601 carrying the
\* request's id, whatever the bridge's state and whatever params is; no
\* capability call is made and the bridge is left as it was.
C4_UnknownMethod ==
    [][(nread' = nread + 1 /\ line'.kind = "object"
            /\ line'.request.method \notin {"initialize", "search", "trending"}) =>
          /\ out' = Append(out, nread')
          /\ "error" \in response'.keys
          /\ "result" \notin response'.keys
          /\ response'.code = -32601
          /\ response'.id = EchoedId(line'.request)
          /\ bridge' = bridge
          /\ call' = NoCall
          /\ pc' = "read"]_vars

C4_Witness ==
    /\ pc = "read" /\ ObjectLine
    /\ line.request.method = "delete"
    /\ line.request.params.type = "null"
    /\ line.request.id = "7"
    /\ bridge.initialized
    /\ response.code = -32601 /\ response.id = "7"
    /\ bridge = prev

\* the Session State of the specification: the authenticated flag and the
\* identity
Session(b) == <<b.initialized, b.username>>

\* the last line read is an initialize request whose login has come back
InitializeAnswered ==
    /\ pc = "read" /\ ObjectLine
    /\ line.request.method = "initialize"
    /\ returned.op = "login"

\* C5: an initialize whose login succeeds returns success: true whatever the
\* state before it, and when the bridge was already initialized with the same
\* credentials the session state after the call equals the one before it:
\* N successful calls leave the state the first one left.
C5_InitializeIdempotent ==
    (InitializeAnswered /\ returned.outcome = "ok") =>
        /\ "result" \in response.keys
        /\ response.result.success = TRUE
        /\ response.result.username = Given(line.request.params.username)
        /\ Session(bridge) = <<TRUE, Given(line.request.params.username)>>
        /\ (/\ prev.initialized /\ prev.client = "logged"
            /\ prev.username = Given(line.request.params.username)
            /\ prev.email = Given(line.request.params.email)
            /\ prev.password = Given(line.request.params.password))
              => Session(bridge) = Session(prev)

C5_Witness ==
    /\ InitializeAnswered /\ returned.outcome = "ok"
    /\ nread = 3 /\ out = <<0, 1, 2, 3>>
    /\ line.request.params.username = "u1"
    /\ prev.initialized /\ prev.client = "logged" /\ prev.username = "u1"
    /\ Session(bridge) = Session(prev)
    /\ response.result.success

\* the positions of the raw items that map, and of those that do not
Mapped(raw) == {i \in 1..Len(raw) : raw[i]}
Unmapped(raw) == {i \in 1..Len(raw) : ~raw[i]}
\* s lists exactly the members of S in increasing order
Ascending(s, S) ==
    /\ {s[i] : i \in 1..Len(s)} = S
    /\ \A i, j \in 1..Len(s) : i < j => s[i] < s[j]

\* the last line read is a search request whose search_tweet call returned
SearchReturned ==
    /\ pc = "read" /\ ObjectLine
    /\ line.request.method = "search"
    /\ returned.op = "search_tweet" /\ returned.outcome = "ok"

\* C6: when search_tweet returns n raw items of which k fail to map, the
\* response carries result (not error) with success: true, the n - k mapped
\* items in their original relative order, count = n - k and the query
\* echoed; with k = 0 tweets and count are both n long.
C6_SearchDropsUnmappable ==
    SearchReturned =>
        /\ "result" \in response.keys
        /\ "error" \notin response.keys
        /\ response.result.success = TRUE
        /\ "tweets" \in response.result.keys
        /\ Ascending(response.result.items, Mapped(returned.raw))
        /\ Len(response.result.items)
              = Len(returned.raw) - Cardinality(Unmapped(returned.raw))
        /\ response.result.count = Len(response.result.items)
        /\ response.result.query
              = Given(line.request.params.query)

C6_Witness ==
    /\ SearchReturned
    /\ returned.raw = <<FALSE, TRUE>>
    /\ response.result.items = <<2>>
    /\ response.result.count = 1
    /\ response.result.query = "cats"

\* C7: every response written after the readiness message has exactly one of
\* result and error; the answer to a line json.loads rejects has error and
\* id null.
C7_ResultXorError ==
    (Len(out) >= 1 /\ out[Len(out)] >= 1) =>
        /\ Cardinality(response.keys \cap {"result", "error"}) = 1
        /\ (pc = "read" /\ line.kind \in {"malformed", "overdeep"}) =>
              /\ out[Len(out)] = nread
              /\ "error" \in response.keys
              /\ response.id = None

C7_Witness ==
    /\ pc = "read" /\ nread = 2
    /\ line.kind = "overdeep"
    /\ out = <<0, 1, 2>>
    /\ response.keys \cap {"result", "error"} = {"error"}
    /\ response.id = None

\* C8 (as claimed): an initialize whose login fails leaves the authenticated
\* flag and the identity as they were before the call.
C8_FailedInitializeKeepsSession ==
    (InitializeAnswered /\ returned.outcome # "ok") =>
        Session(bridge) = Session(prev)

\* C9: the authenticated flag is false at process start and, once an
\* initialize has returned success, true in every later state.
C9_InitializedMonotonic ==
    /\ pc = "start" => ~bridge.initialized
    /\ everInit => bridge.initialized

C9_Witness ==
    /\ everInit /\ bridge.initialized
    /\ InitializeAnswered /\ returned.outcome = "TwikitException"
    /\ prev.initialized

\* C10: a line is read only when main is at readline with no capability call
\* awaited and the line before, unless blank, has been answered; every
\* output line answers the line read last, so the answers appear in the order
\* of their lines; a capability call starts only when none is outstanding.
C10_StrictlySequential ==
    [][/\ (nread' # nread) =>
             /\ nread' = nread + 1
             /\ pc = "read" /\ call = NoCall
             /\ (nread >= 1 /\ line.kind # "blank") =>
                    (out # <<>> /\ out[Len(out)] = nread)
       /\ (out' # out) =>
             /\ out' = Append(out, nread')
             /\ \A i \in 1..Len(out) : out[i] < nread' \/ pc = "start"
             /\ pc' \in {"read"}
       /\ (call' # NoCall /\ call' # call) => (call = NoCall /\ pc' = "await")
       /\ (pc = "await") => (call # NoCall /\ nread' = nread)]_vars

C10_Witness ==
    /\ pc = "await" /\ nread = 3
    /\ call.op = "search_tweet"
    /\ out = <<0, 1, 2>>

\* C11: the readiness message is written once, as the first output line and
\* before any input line is read; every later output line answers one input
\* line that has been read, and no input line is answered twice.
C11_ReadyFirstAndOnce ==
    /\ pc = "start" => (out = <<>> /\ nread = 0)
    /\ pc # "start" =>
          /\ Len(out) >= 1 /\ out[1] = 0
          /\ Len(out) = 1 => response = ReadyMessage
          /\ \A i \in 2..Len(out) : out[i] \in 1..nread
          /\ \A i, j \in 1..Len(out) : i < j => out[i] < out[j]
          /\ Len(out) >= 2 => response # ReadyMessage

C11_Witness ==
    /\ pc = "read" /\ nread = 3
    /\ out = <<0, 1, 3>>
    /\ line.kind = "malformed"

\* C12: no input line ends the loop: after a malformed line, an unknown
\* method, a request whose handling raises or a failing capability call main
\* is back at readline (through the await of the call, if one is made); the
\* loop is left only when readline returns end-of-input.
C12_OnlyEofLeavesLoop ==
    [][/\ (nread' = nread + 1) => pc' \in {"read", "await"}
       /\ (pc = "await" /\ pc' # "await") => pc' = "read"
       /\ (pc' = "done" /\ pc # "done") => (pc = "read" /\ line'.kind = "eof")]_vars

C12_Witness ==
    /\ pc = "read" /\ nread = 3
    /\ line.kind = "object"
    /\ returned.outcome = "Exception"
    /\ out = <<0, 1, 2, 3>>

\* C13: on a finite input stream, with every capability call returning, main
\* reaches end-of-input, the process exits with status 0, and by then every
\* non-blank line read has its response.
C13_TerminatesCleanly ==
    /\ <>(pc = "exited" /\ exit_code = "0")
    /\ [](pc \in {"done", "exited"} =>
            /\ line.kind = "eof"
            /\ call = NoCall
            /\ Len(out) = 1 + nonblank)

C13_Witness ==
    /\ pc = "exited" /\ exit_code = "0"
    /\ nread = 3 /\ nonblank = 2
    /\ out = <<0, 1, 3>>
    /\ returned.op = "get_trends"

\* the last line read has been answered and main is back at readline
Answered == pc = "read" /\ nread >= 1 /\ Len(out) >= 1 /\ out[Len(out)] = nread

\* C14 (as claimed): every line that json.loads accepts, a JSON value that is
\* not an object included, is answered by an envelope handle_request itself
\* returns: nothing reaches the handler of the loop body ("Server error"),
\* and a known method whose params is not a mapping gets -32603 "Internal
\* error" carrying the request's id.
C14_DispatcherContainsFailures ==
    (Answered /\ line.kind \in {"value", "object"}) =>
        /\ response.message # "Server error"
        /\ (ObjectLine /\ line.request.method \in {"initialize", "search", "trending"}
               /\ ~MappingParams(line.request)) =>
              /\ response.code = -32603
              /\ response.message = "Internal error"
              /\ response.id = EchoedId(line.request)

\* the type a failed capability call must be reported with
ExpectedType(op, outcome) ==
    CASE outcome = "Exception" -> "UNKNOWN_ERROR"
      [] outcome = "TwikitException" /\ op = "login" -> "AUTH_ERROR"
      [] OTHER -> "API_ERROR"

\* C15 (as claimed): a capability call that fails is reported inside result,
\* never as an envelope error: success: false with type AUTH_ERROR (login
\* rejected), API_ERROR (search_tweet / get_trends rejected) or UNKNOWN_ERROR
\* (any other exception); an envelope error carries only -32700, -32601 or
\* -32603.
C15_ErrorLayersSeparate ==
    /\ (Answered /\ ObjectLine /\ returned.outcome \in {"TwikitException", "Exception"}) =>
          /\ "result" \in response.keys
          /\ "error" \notin response.keys
          /\ response.result.success = FALSE
          /\ response.result.type = ExpectedType(returned.op, returned.outcome)
    /\ ("error" \in response.keys) => response.code \in {-32700, -32601, -32603}
    /\ ("error" \notin response.keys) => response.code = 0

\* C15 (amended): a capability call that fails is reported inside result,
\* never as an envelope error, with the type above; an envelope error written
\* by main carries only -32700, -32601 or -32603, and the one other envelope
\* error of the process is the -32001 of the import guard, printed before
\* main is entered and followed by exit status 1.
C15_ErrorLayersSeparateInMain ==
    /\ (Answered /\ ObjectLine /\ returned.outcome \in {"TwikitException", "Exception"}) =>
          /\ "result" \in response.keys
          /\ "error" \notin response.keys
          /\ response.result.success = FALSE
          /\ response.result.type = ExpectedType(returned.op, returned.outcome)
    /\ ("error" \in response.keys /\ pc # "failed") =>
          response.code \in {-32700, -32601, -32603}
    /\ (pc = "failed") =>
          /\ "error" \in response.keys /\ "result" \notin response.keys
          /\ response.code = -32001
          /\ out = <<0>> /\ nread = 0 /\ exit_code = "1"
    /\ (response.code = -32001) => pc = "failed"
    /\ ("error" \notin response.keys) => response.code = 0

C15_Witness ==
    /\ Answered /\ ObjectLine
    /\ line.request.method = "initialize"
    /\ returned.op = "login" /\ returned.outcome = "TwikitException"
    /\ response.result.type = "AUTH_ERROR"
    /\ "error" \notin response.keys

\* the last line read is a trending request with an integer count (20 when
\* it gives none) whose get_trends call returned
TrendsReturned ==
    /\ Answered /\ ObjectLine
    /\ line.request.method = "trending"
    /\ returned.op = "get_trends" /\ returned.outcome = "ok"
    /\ line.request.params.count.t \in {"int", "absent"}
RequestedCount ==
    IF line.request.params.count.t = "absent" THEN 20
    ELSE line.request.params.count.v
\* s is a prefix of t
IsPrefix(s, t) == Len(s) <= Len(t) /\ \A i \in 1..Len(s) : s[i] = t[i]
\* the positions of S in increasing order
RECURSIVE InOrder(_)
InOrder(S) ==
    IF S = {} THEN <<>>
    ELSE LET m == CHOOSE x \in S : \A y \in S : x <= y
         IN  <<m>> \o InOrder(S \ {m})

\* C16 (as claimed): for every integer count, 0 and negative values included,
\* a successful trending result has at most count items (none when count is
\* not positive), they are a prefix of the mapped items of the capability's
\* list, and the count field is their number.
C16_TrendingTruncates ==
    TrendsReturned =>
        /\ response.result.success = TRUE
        /\ Len(response.result.items) <= (IF RequestedCount > 0 THEN RequestedCount ELSE 0)
        /\ IsPrefix(response.result.items, InOrder(Mapped(returned.raw)))
        /\ response.result.count = Len(response.result.items)

\* C17: a blank line writes nothing, makes no capability call, leaves the
\* bridge as it was, and main is back at readline.
C17_BlankLineIgnored ==
    [][(nread' = nread + 1 /\ line'.kind = "blank") =>
          /\ out' = out
          /\ response' = response
          /\ bridge' = bridge
          /\ call' = NoCall /\ call = NoCall
          /\ everInit' = everInit
          /\ pc' = "read"]_vars

C17_Witness ==
    /\ pc = "read" /\ nread = 2
    /\ line.kind = "blank"
    /\ out = <<0, 1>>
    /\ bridge.initialized
    /\ bridge = prev

\* C18: while a capability call is awaited nothing has been written for the
\* request, and the only step main can take is the return of that call: if
\* it never comes, no line is read and no line is written any more.
C18_HungCallHangsService ==
    [][(pc = "await") =>
          /\ Answers(nread) = 0
          /\ call # NoCall
          /\ returned' # NoReturn /\ returned'.op = call.op
          /\ call' = NoCall
          /\ nread' = nread /\ line' = line]_vars

C18_Witness ==
    /\ pc = "await" /\ nread = 2
    /\ call.op = "get_trends"
    /\ out = <<0, 1>>
    /\ returned = NoReturn

\* C19 (as claimed): search_tweet and get_trends are only ever called through
\* a Client whose login has succeeded.
C19_CallsThroughLoggedInClient ==
    (call.op \in {"search_tweet", "get_trends"}) => call.client = "logged"

\* C20: whenever main is at readline the number of lines written is 1 (the
\* readiness message) plus the number of non-blank lines read.
C20_OutputCount ==
    (pc = "read") => Len(out) = 1 + nonblank

C20_Witness ==
    /\ pc = "read" /\ nread = 3 /\ nonblank = 2
    /\ line.kind = "value"
    /\ Len(out) = 3
    /\ response.message = "Server error"

====
